---------------------------- MODULE Spec2Model ----------------------------
(***************************************************************************)
(* A model of the omgwtf8 crate: the OMG-WTF-8 string type, its            *)
(* conversions from and to 16-bit code units, canonical comparison,        *)
(* index classification and slicing, and the substring searcher.           *)
(*                                                                         *)
(* Strings are sequences of bytes (0..255); 16-bit code units are numbers  *)
(* 0..65535; an Option is a sequence of length 0 (None) or 1 (Some).       *)
(* Sequences are indexed from 1, the source's byte offsets from 0: the     *)
(* byte at offset i is b[i + 1].                                           *)
(***************************************************************************)
EXTENDS Integers, Sequences, FiniteSets, TLC

VARIABLES
    pc,             \* the step the driver of the operations is at
    ucs2,           \* the 16-bit input of from_wide for the string s
    s,              \* an OmgWtf8 value: its bytes (self.0)
    ucs2b,          \* the 16-bit input of from_wide for the string t
    t,              \* a second OmgWtf8 value (other operand, needle)
    third,          \* a third OmgWtf8 value (the comparisons' third operand)
    text,           \* the &str given to from_str (an Option of its bytes)
    parent,         \* the string that s was sliced from
    src,            \* EncodeWide.src
    low_surrogate,  \* EncodeWide.low_surrogate
    collected,      \* the items EncodeWide::next has returned so far
    overflow_checks,\* the build panics on arithmetic overflow (debug) or wraps
    range,          \* the last slicing expression: <<form, start, end>>
    out,            \* its outcome: [panic |-> BOOLEAN, val |-> bytes]
    begin,          \* OmgWtf8Searcher.begin, as a byte offset into the haystack
    finished,       \* OmgWtf8Searcher.finished
    matches,        \* the matches next_match has returned so far: <<start, end>>
    last_match,     \* the result of the last next_match call (an Option)
    calls,          \* how many times next_match / Split::next were called
    start,          \* Split.start, as a byte offset into the haystack
    split_finished, \* Split.finished
    pieces,         \* the pieces Split::next has yielded so far
    found           \* the result of MatchExt::find (an Option, <<"unset">> before)

vars == <<pc, ucs2, s, ucs2b, t, third, text, parent, src, low_surrogate, collected, overflow_checks,
          range, out, begin, finished, matches, last_match, calls,
          start, split_finished, pieces, found>>

strVars    == <<ucs2, s, ucs2b, t, third, text, parent>>
iterVars   == <<src, low_surrogate, collected>>
sliceVars  == <<range, out>>
searchVars == <<begin, finished, matches, last_match, calls, found>>
splitVars  == <<start, split_finished, pieces>>

-----------------------------------------------------------------------------
(* Bit arithmetic of the source's integer expressions.                     *)

RECURSIVE BitAnd(_, _)
BitAnd(a, b) ==
    IF a = 0 \/ b = 0 THEN 0
    ELSE (a % 2) * (b % 2) + 2 * BitAnd(a \div 2, b \div 2)

RECURSIVE BitOr(_, _)
BitOr(a, b) ==
    IF a = 0 THEN b
    ELSE IF b = 0 THEN a
    ELSE (IF a % 2 = 1 \/ b % 2 = 1 THEN 1 ELSE 0) + 2 * BitOr(a \div 2, b \div 2)

Shr(a, n) == a \div (2 ^ n)
Shl(a, n) == a * (2 ^ n)
AsU8(a)   == a % 256
AsU16(a)  == a % 65536

Bytes == 0 .. 255

IsCont(b) == \H80 <= b /\ b <= \HBF

Take(b, n) == SubSeq(b, 1, n)
Drop(b, n) == SubSeq(b, n + 1, Len(b))
\* &b[from..to] with 0-based offsets, from <= to <= len
Window(b, from, to) == SubSeq(b, from + 1, to)

None == <<>>
Some(x) == <<x>>

-----------------------------------------------------------------------------
(* conv.rs: ThreeByteSeq                                                   *)

\* ThreeByteSeq::new: the big-endian value of input[0..3]
ThreeByteSeqNew(input) ==
    BitOr(BitOr(Shl(input[1], 16), Shl(input[2], 8)), input[3])

\* a canonicalizer that subtracts 0x200 in its 4-byte branch
ThreeByteSeqCanonicalizeSub200(v) ==
    AsU16(CASE \HEDA000 <= v /\ v <= \HEDFFFF -> v
            [] \H800000 <= v /\ v <= \HBFFFFF -> BitOr(v, \HB000)
            [] v >= \HF00000 ->
                 BitOr((BitOr(BitAnd(Shr(v, 4), \H303), BitAnd(Shr(v, 6), \H1C3C))
                        - \H200) % 65536, \HA080)
            [] OTHER -> 0)

\* a canonicalizer that gives a 3-byte ED group no tag
ThreeByteSeqCanonicalizeNoEd(v) ==
    AsU16(CASE \H800000 <= v /\ v <= \HBFFFFF -> BitOr(v, \HB000)
            [] v >= \HF00000 ->
                 BitOr((BitOr(BitAnd(Shr(v, 4), \H303), BitAnd(Shr(v, 6), \H1C3C))
                        - \H100) % 65536, \HA080)
            [] OTHER -> 0)

\* a canonicalizer that keeps only the low 12 bits of a group that begins
\* with a continuation byte
ThreeByteSeqCanonicalizeMasked(v) ==
    AsU16(CASE \HEDA000 <= v /\ v <= \HEDFFFF -> v
            [] \H800000 <= v /\ v <= \HBFFFFF -> BitOr(BitAnd(v, \HFFF), \HB000)
            [] v >= \HF00000 ->
                 BitOr((BitOr(BitAnd(Shr(v, 4), \H303), BitAnd(Shr(v, 6), \H1C3C))
                        - \H100) % 65536, \HA080)
            [] OTHER -> 0)

\* a canonicalizer that does not subtract 0x100 in its 4-byte branch
ThreeByteSeqCanonicalizeNoSub(v) ==
    AsU16(CASE \HEDA000 <= v /\ v <= \HEDFFFF -> v
            [] \H800000 <= v /\ v <= \HBFFFFF -> BitOr(v, \HB000)
            [] v >= \HF00000 ->
                 BitOr(BitOr(BitAnd(Shr(v, 4), \H303), BitAnd(Shr(v, 6), \H1C3C)),
                       \HA080)
            [] OTHER -> 0)

\* a canonicalizer that tags a bare low surrogate group with 0xa000
ThreeByteSeqCanonicalizeLowAsHigh(v) ==
    AsU16(CASE \HEDA000 <= v /\ v <= \HEDFFFF -> v
            [] \H800000 <= v /\ v <= \HBFFFFF -> BitOr(v, \HA000)
            [] v >= \HF00000 ->
                 BitOr((BitOr(BitAnd(Shr(v, 4), \H303), BitAnd(Shr(v, 6), \H1C3C))
                        - \H100) % 65536, \HA080)
            [] OTHER -> 0)

\* ThreeByteSeq::canonicalize.  The subtraction of 0x100 is on a u32: in a
\* build without overflow checks it wraps, and the cast to u16 keeps the low
\* 16 bits of the wrapped difference, which are those of the difference
\* modulo 2^16.
ThreeByteSeqCanonicalize(v) ==
    AsU16(CASE \HEDA000 <= v /\ v <= \HEDFFFF -> v
            [] \H800000 <= v /\ v <= \HBFFFFF -> BitOr(v, \HB000)
            [] v >= \HF00000 ->
                 BitOr((BitOr(BitAnd(Shr(v, 4), \H303), BitAnd(Shr(v, 6), \H1C3C))
                        - \H100) % 65536, \HA080)
            [] OTHER -> 0)

\* ThreeByteSeq::as_code_unit
ThreeByteSeqAsCodeUnit(v) ==
    AsU16(CASE v >= \HF00000 ->
                 BitOr(BitOr(BitAnd(Shr(v, 4), 3), BitAnd(Shr(v, 6), \HFC)),
                       BitAnd(Shr(v, 8), \H700)) + \HD7C0
            [] \H800000 <= v /\ v <= \HBFFFFF ->
                 BitOr(BitOr(BitAnd(v, \H3F), BitAnd(Shr(v, 2), \H3C0)), \HDC00)
            [] OTHER ->
                 BitOr(BitOr(BitAnd(v, \H3F), BitAnd(Shr(v, 2), \HFC0)),
                       BitAnd(Shr(v, 4), \HF000)))

-----------------------------------------------------------------------------
(* conv.rs: from_wide, encode_unit                                         *)

IsHighSurrogate(c) == \HD800 <= c /\ c <= \HDBFF
IsLowSurrogate(c)  == \HDC00 <= c /\ c <= \HDFFF

\* encode_unit: the bytes pushed for one code unit
EncodeUnit(c) ==
    IF c <= \H7F THEN <<AsU8(c)>>
    ELSE IF c <= \H7FF THEN
        <<AsU8(BitOr(Shr(c, 6), \HC0)), AsU8(BitOr(BitAnd(c, \H3F), \H80))>>
    ELSE
        <<AsU8(BitOr(Shr(c, 12), \HE0)),
          AsU8(BitOr(BitAnd(Shr(c, 6), \H3F), \H80)),
          AsU8(BitOr(BitAnd(c, \H3F), \H80))>>

\* the 4-byte sequence from_wide writes for a high surrogate c1 followed by
\* a low surrogate c2
EncodePair(c1, c2) ==
    LET c == BitOr(Shl(BitAnd(c1, \H3FF), 10), BitAnd(c2, \H3FF)) + \H10000
    IN  <<AsU8(BitOr(Shr(c, 18), \HF0)),
          AsU8(BitOr(BitAnd(Shr(c, 12), \H3F), \H80)),
          AsU8(BitOr(BitAnd(Shr(c, 6), \H3F), \H80)),
          AsU8(BitOr(BitAnd(c, \H3F), \H80))>>

\* The loops of from_wide.  FromWideOuter is the 'outer loop about to take
\* the unit at position i; FromWideInner is the inner loop holding the high
\* surrogate c1 and about to take the unit at position i.
RECURSIVE FromWideOuter(_, _, _), FromWideInner(_, _, _, _)
\* an inner loop that gives up on a second high surrogate: it writes both as
\* 3-byte groups and goes back to the outer loop
FromWideInnerNoRun(w, i, c1, buf) ==
    IF i > Len(w) THEN buf \o EncodeUnit(c1)
    ELSE IF IsLowSurrogate(w[i]) THEN
        FromWideOuter(w, i + 1, buf \o EncodePair(c1, w[i]))
    ELSE
        FromWideOuter(w, i + 1, buf \o EncodeUnit(c1) \o EncodeUnit(w[i]))

FromWideOuter(w, i, buf) ==
    IF i > Len(w) THEN buf
    ELSE IF IsHighSurrogate(w[i]) THEN FromWideInner(w, i + 1, w[i], buf)
    ELSE FromWideOuter(w, i + 1, buf \o EncodeUnit(w[i]))

FromWideInner(w, i, c1, buf) ==
    IF i > Len(w) THEN buf \o EncodeUnit(c1)
    ELSE IF IsHighSurrogate(w[i]) THEN
        FromWideInner(w, i + 1, w[i], buf \o EncodeUnit(c1))
    ELSE IF IsLowSurrogate(w[i]) THEN
        FromWideOuter(w, i + 1, buf \o EncodePair(c1, w[i]))
    ELSE
        FromWideOuter(w, i + 1, buf \o EncodeUnit(c1) \o EncodeUnit(w[i]))

\* OmgWtf8::from_wide
FromWideOf(w) == FromWideOuter(w, 1, <<>>)

-----------------------------------------------------------------------------
(* conv.rs: EncodeWide                                                     *)

\* a 4-byte branch that does not subtract 0x10000 from the code point
FourByteUnitsNoOffset(b) ==
    LET d == BitOr(BitOr(Shl(BitAnd(b[1], 7), 18), Shl(BitAnd(b[2], \H3F), 12)),
                   BitOr(Shl(BitAnd(b[3], \H3F), 6), BitAnd(b[4], \H3F)))
    IN  <<AsU16(BitOr(BitAnd(Shr(d, 10), \H3FF), \HD800)),
          AsU16(BitOr(BitAnd(d, \H3FF), \HDC00))>>

\* The 4-byte branch of EncodeWide::next: the two surrogates of the code
\* point in b[0..4].
FourByteUnits(b) ==
    LET d0 == BitOr(BitOr(Shl(BitAnd(b[1], 7), 18), Shl(BitAnd(b[2], \H3F), 12)),
                    BitOr(Shl(BitAnd(b[3], \H3F), 6), BitAnd(b[4], \H3F)))
        d  == d0 - \H10000
    IN  <<AsU16(BitOr(BitAnd(Shr(d, 10), \H3FF), \HD800)),
          AsU16(BitOr(BitAnd(d, \H3FF), \HDC00))>>

\* the guard of the 4-byte branch: lead 0xf0..=0xff if self.src.len() >= 4
FourByteGuard(b) == b[1] >= \HF0 /\ Len(b) >= 4

\* a call that also consumes a byte when it returns the pending low surrogate
EncodeWideStepLowConsumes(b, low) ==
    IF low # None THEN [item |-> low, src |-> Drop(b, 1), low_surrogate |-> None]
    ELSE IF b = <<>> THEN [item |-> None, src |-> b, low_surrogate |-> None]
    ELSE IF b[1] <= \H7F THEN
        [item |-> Some(b[1]), src |-> Drop(b, 1), low_surrogate |-> None]
    ELSE IF \HC0 <= b[1] /\ b[1] <= \HDF THEN
        [item |-> Some(BitOr(Shl(BitAnd(b[1], \H1F), 6), BitAnd(b[2], \H3F))),
         src |-> Drop(b, 2), low_surrogate |-> None]
    ELSE IF FourByteGuard(b) THEN
        [item |-> Some(FourByteUnits(b)[1]), src |-> Drop(b, 4),
         low_surrogate |-> Some(FourByteUnits(b)[2])]
    ELSE
        [item |-> Some(ThreeByteSeqAsCodeUnit(ThreeByteSeqNew(b))),
         src |-> Drop(b, 3), low_surrogate |-> None]

\* One call of EncodeWide::next on the iterator state (b, low): the item it
\* returns and the state it leaves.
EncodeWideStep(b, low) ==
    IF low # None THEN [item |-> low, src |-> b, low_surrogate |-> None]
    ELSE IF b = <<>> THEN [item |-> None, src |-> b, low_surrogate |-> None]
    ELSE IF b[1] <= \H7F THEN
        [item |-> Some(b[1]), src |-> Drop(b, 1), low_surrogate |-> None]
    ELSE IF \HC0 <= b[1] /\ b[1] <= \HDF THEN
        [item |-> Some(BitOr(Shl(BitAnd(b[1], \H1F), 6), BitAnd(b[2], \H3F))),
         src |-> Drop(b, 2), low_surrogate |-> None]
    ELSE IF FourByteGuard(b) THEN
        [item |-> Some(FourByteUnits(b)[1]), src |-> Drop(b, 4),
         low_surrogate |-> Some(FourByteUnits(b)[2])]
    ELSE
        [item |-> Some(ThreeByteSeqAsCodeUnit(ThreeByteSeqNew(b))),
         src |-> Drop(b, 3), low_surrogate |-> None]

\* s.encode_wide().collect(): EncodeWide::next called until it returns None
RECURSIVE EncodeWideCollect(_, _)
EncodeWideCollect(b, low) ==
    LET r == EncodeWideStep(b, low)
    IN  IF r.item = None THEN <<>>
        ELSE r.item \o EncodeWideCollect(r.src, r.low_surrogate)

EncodeWideOf(b) == EncodeWideCollect(b, None)

-----------------------------------------------------------------------------
(* slice.rs: classify_index and the Index implementations                  *)

\* A stand-in for the distance by which a usize subtraction that wraps
\* overshoots every length of the model (the real one is 2^64).
UsizeWrap == 1073741824

\* a - b on usize in a build without overflow checks
WrappingSub(a, b) == IF a >= b THEN a - b ELSE a - b + UsizeWrap

\* a classification that looks at the preceding bytes only, not at whether
\* the rest of the 4-byte sequence lies in the string
ClassifyIndexNoBounds(b, index, checks) ==
    LET len == Len(b)
    IN  IF index = 0 \/ index = len THEN "CharBoundary"
        ELSE IF index > len THEN "OutOfBounds"
        ELSE IF IsCont(b[index + 1]) THEN
            IF checks /\ len < 3 THEN "Overflow"
            ELSE IF 1 <= index /\ b[index] >= \HF0 THEN "FourByteSeq1"
            ELSE IF 2 <= index /\ b[index - 1] >= \HF0 THEN "FourByteSeq2"
            ELSE IF 3 <= index /\ b[index - 2] >= \HF0 THEN "FourByteSeq3"
            ELSE "Interior"
        ELSE "CharBoundary"

\* OmgWtf8::classify_index.  "Overflow" is the panic of `len - 3` in a build
\* with overflow checks; the conditions are evaluated left to right, so
\* `len - 2` and `len - 1` are only computed when 2 <= index, 3 <= index.
ClassifyIndex(b, index, checks) ==
    LET len == Len(b)
    IN  IF index = 0 \/ index = len THEN "CharBoundary"
        ELSE IF index > len THEN "OutOfBounds"
        ELSE IF IsCont(b[index + 1]) THEN
            IF checks /\ len < 3 THEN "Overflow"
            ELSE IF 1 <= index /\ index <= WrappingSub(len, 3)
                    /\ b[index] >= \HF0 THEN "FourByteSeq1"
            ELSE IF 2 <= index /\ index <= len - 2
                    /\ b[index - 1] >= \HF0 THEN "FourByteSeq2"
            ELSE IF 3 <= index /\ index <= len - 1
                    /\ b[index - 2] >= \HF0 THEN "FourByteSeq3"
            ELSE "Interior"
        ELSE "CharBoundary"

Panic == [panic |-> TRUE, val |-> <<>>]
Ok(b) == [panic |-> FALSE, val |-> b]

\* a slice primitive that yields the empty slice for a reversed range
SliceBytesLenient(b, from, to) ==
    IF to > Len(b) THEN Panic
    ELSE IF from > to THEN Ok(<<>>)
    ELSE Ok(Window(b, from, to))

\* &self.0[from..to]: the slice primitive panics unless from <= to <= len
SliceBytes(b, from, to) ==
    IF from <= to /\ to <= Len(b) THEN Ok(Window(b, from, to)) ELSE Panic

\* the adjustment of a start index: FourByteSeq2 => start -= 1
AdjustStart(kind, i) == IF kind = "FourByteSeq2" THEN i - 1 ELSE i
\* an end index that is never adjusted
AdjustEndSame(kind, j) == j

\* the adjustment of an end index: FourByteSeq2 => end += 1
AdjustEnd(kind, j) == IF kind = "FourByteSeq2" THEN j + 1 ELSE j

\* every index inside a 4-byte sequence taken as legal
LegalKindAnyFourByte(kind) ==
    kind \in {"CharBoundary", "FourByteSeq1", "FourByteSeq2", "FourByteSeq3"}

LegalKind(kind) == kind \in {"CharBoundary", "FourByteSeq2"}

\* Index<RangeTo<usize>>: s[..end]
IndexRangeTo(b, end, checks) ==
    LET kind == ClassifyIndex(b, end, checks)
    IN  IF LegalKind(kind) THEN SliceBytes(b, 0, AdjustEnd(kind, end)) ELSE Panic

\* Index<RangeFrom<usize>>: s[start..]
IndexRangeFrom(b, st, checks) ==
    LET kind == ClassifyIndex(b, st, checks)
    IN  IF LegalKind(kind) THEN SliceBytes(b, AdjustStart(kind, st), Len(b))
        ELSE Panic

\* Index<Range<usize>>: s[start..end]
IndexRange(b, st, end, checks) ==
    IF st = end THEN Ok(<<>>)
    ELSE LET k1 == ClassifyIndex(b, st, checks)
             k2 == ClassifyIndex(b, end, checks)
         IN  IF ~LegalKind(k1) THEN Panic
             ELSE IF ~LegalKind(k2) THEN Panic
             ELSE SliceBytes(b, AdjustStart(k1, st), AdjustEnd(k2, end))

\* Index<RangeFull>: s[..]
IndexRangeFull(b) == Ok(b)

-----------------------------------------------------------------------------
(* cmp.rs: OmgWtf8::canonicalize and PartialEq                             *)

IsHighTag(c) == \HA000 <= c /\ c <= \HAFFF
IsLowTag(c)  == \HB000 <= c /\ c <= \HBFFF

\* a canonicalization that peels bare groups only: a 3-byte ED group at
\* either end stays in the middle bytes
CanonicalizeBareOnly(b) ==
    LET len == Len(b)
        low == len >= 3 /\ IsCont(b[1])
        high == len >= 3 /\ b[len - 2] >= \HF0 /\ (len >= 6 \/ ~low)
        beg == ThreeByteSeqCanonicalize(ThreeByteSeqNew(Take(b, 3)))
        end == ThreeByteSeqCanonicalize(ThreeByteSeqNew(Drop(b, len - 3)))
    IN  <<IF low THEN beg ELSE 0,
          Window(b, IF low THEN 3 ELSE 0, IF high THEN len - 3 ELSE len),
          IF high THEN end ELSE 0>>

\* OmgWtf8::canonicalize: the triple <<low tag, middle bytes, high tag>>
Canonicalize(b) ==
    LET len == Len(b)
        beg == ThreeByteSeqCanonicalize(ThreeByteSeqNew(Take(b, 3)))
        end == ThreeByteSeqCanonicalize(ThreeByteSeqNew(Drop(b, len - 3)))
    IN  IF len <= 2 THEN <<0, b, 0>>
        ELSE IF len = 3 THEN
            IF IsHighTag(beg) THEN <<0, <<>>, beg>>
            ELSE IF IsLowTag(beg) THEN <<beg, <<>>, 0>>
            ELSE <<0, b, 0>>
        ELSE IF len <= 5 THEN
            IF IsLowTag(beg) THEN <<beg, Drop(b, 3), 0>>
            ELSE IF IsHighTag(end) THEN <<0, Take(b, len - 3), end>>
            ELSE <<0, b, 0>>
        ELSE
            IF IsLowTag(beg) /\ IsHighTag(end) THEN <<beg, Window(b, 3, len - 3), end>>
            ELSE IF IsLowTag(beg) THEN <<beg, Drop(b, 3), 0>>
            ELSE IF IsHighTag(end) THEN <<0, Take(b, len - 3), end>>
            ELSE <<0, b, 0>>

\* PartialEq::eq
Eq(a, b) == Canonicalize(a) = Canonicalize(b)

-----------------------------------------------------------------------------
(* conv.rs: the canonicalizing owned copy, and the UTF-8 view              *)

\* the 3 bytes written over a surrogate group: 0xed, c >> 8, c
CanonicalGroup(g) ==
    LET c == ThreeByteSeqCanonicalize(ThreeByteSeqNew(g))
    IN  <<\HED, AsU8(Shr(c, 8)), AsU8(c)>>

\* the first rewrite of the boxing conversion: boxed_slice[0] in 0x80..=0xbf
BoxHead(b) ==
    IF IsCont(b[1]) THEN CanonicalGroup(Take(b, 3)) \o Drop(b, 3) ELSE b

\* the boxing conversion without its second rewrite
BoxTailSkipped(b) == b

\* the second rewrite: boxed_slice[len - 3] in 0xf0..=0xff
BoxTail(b) ==
    IF b[Len(b) - 2] >= \HF0
    THEN Take(b, Len(b) - 3) \o CanonicalGroup(Drop(b, Len(b) - 3))
    ELSE b

\* From<&OmgWtf8> for Box<OmgWtf8>
BoxFrom(b) == IF Len(b) >= 3 THEN BoxTail(BoxHead(b)) ELSE b

\* std::str::from_utf8(..).is_ok(): the well-formed UTF-8 byte sequences of
\* the Unicode standard (no surrogates, no overlong forms, at most U+10FFFF)
RECURSIVE FromUtf8IsOk(_)
FromUtf8IsOk(b) ==
    IF b = <<>> THEN TRUE
    ELSE LET n  == Len(b)
             b1 == b[1]
             c(k) == k <= n /\ IsCont(b[k])
         IN  IF b1 <= \H7F THEN FromUtf8IsOk(Drop(b, 1))
             ELSE IF \HC2 <= b1 /\ b1 <= \HDF THEN c(2) /\ FromUtf8IsOk(Drop(b, 2))
             ELSE IF \HE0 <= b1 /\ b1 <= \HEF THEN
                 /\ c(2) /\ c(3)
                 /\ (b1 = \HE0 => b[2] >= \HA0)
                 /\ (b1 = \HED => b[2] <= \H9F)
                 /\ FromUtf8IsOk(Drop(b, 3))
             ELSE IF \HF0 <= b1 /\ b1 <= \HF4 THEN
                 /\ c(2) /\ c(3) /\ c(4)
                 /\ (b1 = \HF0 => b[2] >= \H90)
                 /\ (b1 = \HF4 => b[2] <= \H8F)
                 /\ FromUtf8IsOk(Drop(b, 4))
             ELSE FALSE

\* a view handed out without validation
ToStrUnchecked(b) == Some(b)

\* OmgWtf8::to_str: Some(the bytes as a str) or None
ToStr(b) == IF FromUtf8IsOk(b) THEN Some(b) ELSE None

\* OmgWtf8::from_str: the bytes of the str, unchanged
FromStr(str) == str

-----------------------------------------------------------------------------
(* Notions the statements about the operations are written in.             *)

\* A well-formed OMG-WTF-8 string: an optional bare low surrogate group
\* (three continuation bytes) at the start, then WTF-8 characters, then an
\* optional bare high surrogate group (the first three bytes of a 4-byte
\* sequence) at the end.  As in WTF-8, a 3-byte high surrogate is never
\* directly followed by a 3-byte low surrogate.  afterHigh: the character
\* before b is a 3-byte high surrogate.
RECURSIVE WellFormedChars(_, _)
WellFormedChars(b, afterHigh) ==
    IF b = <<>> THEN TRUE
    ELSE LET n  == Len(b)
             b1 == b[1]
             c(k) == k <= n /\ IsCont(b[k])
         IN  IF b1 <= \H7F THEN WellFormedChars(Drop(b, 1), FALSE)
             ELSE IF \HC2 <= b1 /\ b1 <= \HDF THEN
                 c(2) /\ WellFormedChars(Drop(b, 2), FALSE)
             ELSE IF \HE0 <= b1 /\ b1 <= \HEF THEN
                 /\ c(2) /\ c(3)
                 /\ (b1 = \HE0 => b[2] >= \HA0)
                 /\ ~(b1 = \HED /\ b[2] >= \HB0 /\ afterHigh)
                 /\ WellFormedChars(Drop(b, 3),
                                    b1 = \HED /\ \HA0 <= b[2] /\ b[2] <= \HAF)
             ELSE IF \HF0 <= b1 /\ b1 <= \HF4 THEN
                 /\ c(2) /\ c(3)
                 /\ (b1 = \HF0 => b[2] >= \H90)
                 /\ (b1 = \HF4 => b[2] <= \H8F)
                 /\ (n = 3 \/ (c(4) /\ WellFormedChars(Drop(b, 4), FALSE)))
             ELSE FALSE

WellFormed(b) ==
    IF b # <<>> /\ IsCont(b[1])
    THEN Len(b) >= 3 /\ IsCont(b[2]) /\ IsCont(b[3])
         /\ WellFormedChars(Drop(b, 3), FALSE)
    ELSE WellFormedChars(b, FALSE)

StartsWithBareLow(b) == Len(b) >= 3 /\ IsCont(b[1])
EndsWithBareHigh(b)  == Len(b) >= 3 /\ b[Len(b) - 2] >= \HF0

\* The code-unit position of the byte offset i of b: how many 16-bit units
\* the groups before offset i decode to.  An offset two bytes into a 4-byte
\* sequence lies between its high and its low surrogate.
RECURSIVE UnitPos(_, _)
UnitPos(b, i) ==
    IF i <= 0 \/ b = <<>> THEN 0
    ELSE LET glen == IF b[1] <= \H7F THEN 1
                     ELSE IF \HC0 <= b[1] /\ b[1] <= \HDF THEN 2
                     ELSE IF b[1] >= \HF0 /\ Len(b) >= 4 THEN 4
                     ELSE 3
         IN  IF i >= glen
             THEN (IF glen = 4 THEN 2 ELSE 1) + UnitPos(Drop(b, glen), i - glen)
             ELSE IF glen = 4 /\ i = 2 THEN 1 ELSE 0

\* a sequence of 16-bit units holds a surrogate that is not part of a pair
HasUnpairedSurrogate(u) ==
    \E k \in 1 .. Len(u) :
        \/ IsHighSurrogate(u[k]) /\ (k = Len(u) \/ ~IsLowSurrogate(u[k + 1]))
        \/ IsLowSurrogate(u[k]) /\ (k = 1 \/ ~IsHighSurrogate(u[k - 1]))

\* the concatenations of at most n of the given items
RECURSIVE Concats(_, _)
Concats(Items, n) ==
    IF n = 0 THEN {<<>>}
    ELSE LET shorter == Concats(Items, n - 1)
         IN  shorter \cup {p \o it : p \in shorter, it \in Items}

\* the strings s[i..j] that slicing b yields (b itself is b[0..len])
SlicesOf(b) ==
    {b} \cup {IndexRange(b, i, j, FALSE).val :
                 <<i, j>> \in {x \in (0 .. Len(b)) \X (0 .. Len(b)) :
                                  ~IndexRange(b, x[1], x[2], FALSE).panic}}

\* the strings the constructors yield from the given 16-bit inputs:
\* from_wide of an input, and the slices of that
StringsFrom(Inputs) == UNION {SlicesOf(FromWideOf(w)) : w \in Inputs}

-----------------------------------------------------------------------------
(* Bounds and input alphabets.                                             *)

\* the longest 16-bit input of the conversion round trip
MaxWide == 3

\* 16-bit code units at the edges of the encoder's and decoder's ranges:
\* 1-, 2- and 3-byte units, the first and last high and low surrogates
WideUnits ==
    {\H41, \H7F, \H80, \H7FF, \H800, \HD7FF, \HD800, \HDBFF, \HDC00, \HDFFF,
     \HE000, \HFFFF}

WideSeqs(A, n) == UNION {[1 .. k -> A] : k \in 0 .. n}

NoOutcome == [panic |-> FALSE, val |-> <<>>]

IterIdle   == src = <<>> /\ low_surrogate = None /\ collected = <<>>
SliceIdle  == range = <<>> /\ out = NoOutcome
SearchIdle == /\ begin = 0 /\ finished = FALSE /\ matches = <<>>
              /\ last_match = None /\ calls = 0
              /\ found = <<"unset">>
SplitIdle  == start = 0 /\ split_finished = FALSE /\ pieces = <<>>

-----------------------------------------------------------------------------
(* The conversions: from_wide, then encode_wide and its iterator.          *)

InitWide ==
    /\ pc = "init"
    /\ ucs2 \in WideSeqs(WideUnits, MaxWide)
    /\ s = <<>> /\ ucs2b = <<>> /\ t = <<>> /\ text = None /\ parent = <<>>
    /\ overflow_checks = FALSE
    /\ third = <<>>
    /\ IterIdle /\ SliceIdle /\ SearchIdle /\ SplitIdle

\* let s = OmgWtf8::from_wide(&ucs2)
FromWide ==
    /\ pc = "init" /\ text = None
    /\ s' = FromWideOf(ucs2)
    /\ pc' = "string"
    /\ UNCHANGED <<ucs2, ucs2b, t, third, text, parent, overflow_checks>>
    /\ UNCHANGED <<iterVars, sliceVars, searchVars, splitVars>>

\* s.encode_wide(): a new iterator over the bytes of s
EncodeWide ==
    /\ pc = "string"
    /\ src' = s
    /\ low_surrogate' = None
    /\ collected' = <<>>
    /\ pc' = "iter"
    /\ UNCHANGED <<strVars, overflow_checks, sliceVars, searchVars, splitVars>>

\* EncodeWide::next, called by collect() until it returns None
EncodeWideNext ==
    /\ pc = "iter"
    /\ LET r == EncodeWideStep(src, low_surrogate)
       IN  /\ src' = r.src
           /\ low_surrogate' = r.low_surrogate
           /\ collected' = collected \o r.item
           /\ pc' = IF r.item = None THEN "collected" ELSE "iter"
    /\ UNCHANGED <<strVars, overflow_checks, sliceVars, searchVars, splitVars>>

NextWide == FromWide \/ EncodeWide \/ EncodeWideNext

SpecWide == InitWide /\ [][NextWide]_vars

(* C1: round trip.  For every sequence W of 16-bit code units, unpaired and *)
(* mis-ordered surrogates included, collecting                              *)
(* OmgWtf8::from_wide(W).encode_wide() yields exactly W.                    *)
C1_RoundTrip ==
    (pc = "collected" /\ range = <<>>) => collected = ucs2

\* a collected round trip of a low surrogate before a high one (mis-ordered)
\* followed by a proper pair's low half
C1_Witness ==
    /\ pc = "collected" /\ range = <<>>
    /\ Len(ucs2) = 3
    /\ IsLowSurrogate(ucs2[1]) /\ IsHighSurrogate(ucs2[2]) /\ IsLowSurrogate(ucs2[3])
    /\ Len(s) = 7
    /\ collected = ucs2

-----------------------------------------------------------------------------
(* Slicing: s[i..j], s[i..], s[..j], s[..] on the strings the constructors  *)
(* yield.                                                                   *)

\* how many items (a code unit, or a surrogate pair) the 16-bit inputs of
\* the sliced strings are made of
MaxSliceItems == 3

\* a 1-byte and a 2-byte unit, a high and a low surrogate, and their pair
SliceItems ==
    {<<\H41>>, <<\HC1>>, <<\HD83D>>, <<\HDE00>>, <<\HD83D, \HDE00>>}

SliceStrings == StringsFrom(Concats(SliceItems, MaxSliceItems))

\* The overflow_checks of the build only decide classify_index on strings
\* shorter than 3 bytes (`len - 3`).
InitSlice ==
    /\ pc = "init"
    /\ s \in SliceStrings
    /\ overflow_checks \in (IF Len(s) < 3 THEN BOOLEAN ELSE {FALSE})
    /\ ucs2 = <<>> /\ ucs2b = <<>> /\ t = <<>> /\ text = None /\ parent = <<>>
    /\ third = <<>>
    /\ IterIdle /\ SliceIdle /\ SearchIdle /\ SplitIdle

Sliced(form, i, j, outcome) ==
    /\ pc = "init"
    /\ range' = <<form, i, j>>
    /\ out' = outcome
    /\ pc' = "sliced"
    /\ UNCHANGED <<strVars, overflow_checks, iterVars, searchVars, splitVars>>

\* s[i..j]
SliceRange ==
    \E i, j \in 0 .. Len(s) + 1 :
        Sliced("range", i, j, IndexRange(s, i, j, overflow_checks))

\* s[i..]
SliceRangeFrom ==
    \E i \in 0 .. Len(s) + 1 :
        Sliced("from", i, Len(s), IndexRangeFrom(s, i, overflow_checks))

\* s[..j]
SliceRangeTo ==
    \E j \in 0 .. Len(s) + 1 :
        Sliced("to", 0, j, IndexRangeTo(s, j, overflow_checks))

\* s[..]
SliceRangeFull == Sliced("full", 0, Len(s), IndexRangeFull(s))

\* s.classify_index(i)
Classify ==
    \E i \in 0 .. Len(s) + 1 :
        /\ pc = "init"
        /\ range' = <<"index", i, i>>
        /\ out' = LET kind == ClassifyIndex(s, i, overflow_checks)
                  IN  IF kind = "Overflow" THEN Panic
                      ELSE [panic |-> FALSE, val |-> <<kind>>]
        /\ pc' = "classified"
        /\ UNCHANGED <<strVars, overflow_checks, iterVars, searchVars, splitVars>>

NextSlice ==
    SliceRange \/ SliceRangeFrom \/ SliceRangeTo \/ SliceRangeFull \/ Classify

SpecSlice == InitSlice /\ [][NextSlice]_vars

\* the kinds of the endpoints the last slicing expression names
StartKind == ClassifyIndex(s, range[2], overflow_checks)
EndKind   == ClassifyIndex(s, range[3], overflow_checks)
InvalidKind(kind) ==
    kind \in {"FourByteSeq1", "FourByteSeq3", "Interior", "OutOfBounds"}

\* every string the slicing specification starts from is well-formed
SliceInputsWellFormed == WellFormed(s)

(* C4: slice well-formedness.  For every well-formed S and indices i <= j   *)
(* that each classify as CharBoundary or FourByteSeq2, S[i..j] does not     *)
(* fail, is well-formed, and decodes to the code units of S between the     *)
(* code-unit positions of i and j.                                          *)
C4_SliceWellFormed ==
    (/\ pc = "sliced" /\ range[1] = "range" /\ range[2] <= range[3]
     /\ WellFormed(s)
     /\ LegalKind(StartKind) /\ LegalKind(EndKind))
    => /\ ~out.panic
       /\ WellFormed(out.val)
       /\ EncodeWideOf(out.val)
            = SubSeq(EncodeWideOf(s), UnitPos(s, range[2]) + 1, UnitPos(s, range[3]))

\* a slice from the middle of one 4-byte sequence to the middle of the next
C4_Witness ==
    /\ pc = "sliced" /\ range[1] = "range" /\ range[2] < range[3]
    /\ StartKind = "FourByteSeq2" /\ EndKind = "FourByteSeq2"
    /\ ~out.panic
    /\ EncodeWideOf(out.val) = <<\HDE00, \HD83D>>

(* C5, as stated: for every string S and every range form S[i..j], S[i..],  *)
(* S[..j], if an endpoint classifies as FourByteSeq1, FourByteSeq3,         *)
(* Interior or OutOfBounds, the slicing operation panics.                   *)
C5_InvalidIndexPanics ==
    (/\ pc = "sliced"
     /\ \/ range[1] \in {"range", "from"} /\ InvalidKind(StartKind)
        \/ range[1] \in {"range", "to"} /\ InvalidKind(EndKind))
    => out.panic

(* C5, amended: the same, except that S[i..j] with i = j is the empty       *)
(* string whatever i classifies as.                                         *)
C5_InvalidIndexPanicsUnlessEmpty ==
    (/\ pc = "sliced"
     /\ ~(range[1] = "range" /\ range[2] = range[3])
     /\ \/ range[1] \in {"range", "from"} /\ InvalidKind(StartKind)
        \/ range[1] \in {"range", "to"} /\ InvalidKind(EndKind))
    => out.panic

\* a valid start and an end inside a 2- or 3-byte group: the slicing panics
C5_Witness ==
    /\ pc = "sliced" /\ range[1] = "range" /\ range[2] < range[3]
    /\ LegalKind(StartKind) /\ EndKind = "Interior"
    /\ out.panic

(* C6: a reversed range always fails.  For every S and i > j, S[i..j]       *)
(* panics, also when i and/or j are FourByteSeq2 indices that get adjusted  *)
(* (start - 1, end + 1) before the byte window is taken.                    *)
C6_ReversedRangePanics ==
    (pc = "sliced" /\ range[1] = "range" /\ range[2] > range[3]) => out.panic

\* a reversed range whose two ends are both adjusted
C6_Witness ==
    /\ pc = "sliced" /\ range[1] = "range" /\ range[2] > range[3]
    /\ StartKind = "FourByteSeq2" /\ EndKind = "FourByteSeq2"
    /\ out.panic

-----------------------------------------------------------------------------
(* One string: construction by from_wide or from_str, an optional slice,    *)
(* then the canonicalizing owned copy or the UTF-8 view.                    *)

\* how many items the 16-bit inputs of from_wide are made of
MaxOwnedItems == 3
\* how many characters the &str inputs of from_str have
MaxTextChars == 2

\* 1-, 2- and 3-byte units, two surrogates and a pair
OwnedItems ==
    {<<\H41>>, <<\H500>>, <<\H91AA>>, <<\HD888>>, <<\HDDDD>>, <<\HD83D, \HDE00>>}

\* the UTF-8 bytes of some characters: U+0041, U+00C1, U+91AA, U+D7FF,
\* U+E000, U+1F600, U+10FFFF
TextChars ==
    {<<\H41>>, <<\HC3, \H81>>, <<\HE9, \H86, \HAA>>, <<\HED, \H9F, \HBF>>,
     <<\HEE, \H80, \H80>>, <<\HF0, \H9F, \H98, \H80>>, <<\HF4, \H8F, \HBF, \HBF>>}

InitOwned ==
    /\ pc = "init"
    /\ \/ ucs2 \in Concats(OwnedItems, MaxOwnedItems) /\ text = None
       \/ ucs2 = <<>> /\ text \in {Some(x) : x \in Concats(TextChars, MaxTextChars)}
    /\ s = <<>> /\ ucs2b = <<>> /\ t = <<>> /\ parent = <<>>
    /\ overflow_checks = FALSE
    /\ third = <<>>
    /\ IterIdle /\ SliceIdle /\ SearchIdle /\ SplitIdle

\* let s = OmgWtf8::from_str(text)
FromStrText ==
    /\ pc = "init" /\ text # None
    /\ s' = FromStr(text[1])
    /\ pc' = "string"
    /\ UNCHANGED <<ucs2, ucs2b, t, third, text, parent, overflow_checks>>
    /\ UNCHANGED <<iterVars, sliceVars, searchVars, splitVars>>

\* let s = &s[i..j], for a range that does not panic
SliceOwned ==
    /\ pc = "string"
    /\ \E i, j \in 0 .. Len(s) :
        LET r == IndexRange(s, i, j, overflow_checks)
        IN  /\ ~r.panic
            /\ parent' = s
            /\ s' = r.val
            /\ range' = <<"range", i, j>>
    /\ pc' = "slice"
    /\ UNCHANGED <<ucs2, ucs2b, t, third, text, out, overflow_checks>>
    /\ UNCHANGED <<iterVars, searchVars, splitVars>>

\* Box::<OmgWtf8>::from(s)
BoxFromS ==
    /\ pc \in {"string", "slice"}
    /\ out' = [panic |-> FALSE, val |-> BoxFrom(s), again |-> None]
    /\ pc' = "boxed"
    /\ UNCHANGED <<strVars, range, overflow_checks, iterVars, searchVars, splitVars>>

\* Box::<OmgWtf8>::from(&*boxed): the conversion applied to its own result
BoxFromAgain ==
    /\ pc = "boxed"
    /\ out' = [out EXCEPT !.again = Some(BoxFrom(out.val))]
    /\ pc' = "boxed2"
    /\ UNCHANGED <<strVars, range, overflow_checks, iterVars, searchVars, splitVars>>

\* s.to_str()
ToStrS ==
    /\ pc \in {"string", "slice"}
    /\ out' = [panic |-> FALSE, val |-> ToStr(s)]
    /\ pc' = "to_str"
    /\ UNCHANGED <<strVars, range, overflow_checks, iterVars, searchVars, splitVars>>

NextOwned ==
    FromWide \/ FromStrText \/ SliceOwned \/ BoxFromS \/ BoxFromAgain \/ ToStrS

SpecOwned == InitOwned /\ [][NextOwned]_vars

\* every string of this specification is well-formed
OwnedStringsWellFormed == pc # "init" => WellFormed(s)

(* C3: canonical-copy stability.  For every well-formed S, the boxed copy   *)
(* has the length of S, compares equal to S, and boxing it again returns a  *)
(* byte-for-byte identical buffer; a leading bare-low group and a trailing  *)
(* bare-high group are each rewritten to their ED xx xx form.               *)
C3_BoxStable ==
    (pc \in {"boxed", "boxed2"}) =>
        /\ Len(out.val) = Len(s)
        /\ Eq(out.val, s)
        /\ (out.again # None => out.again[1] = out.val)
        /\ (StartsWithBareLow(s) =>
              Take(out.val, 3)
                = EncodeUnit(ThreeByteSeqAsCodeUnit(ThreeByteSeqNew(Take(s, 3)))))
        /\ (EndsWithBareHigh(s) =>
              Drop(out.val, Len(s) - 3)
                = EncodeUnit(ThreeByteSeqAsCodeUnit(ThreeByteSeqNew(Drop(s, Len(s) - 3)))))
        /\ ~StartsWithBareLow(out.val) /\ ~EndsWithBareHigh(out.val)

\* the copy of a slice with a bare group at both ends, boxed twice
C3_Witness ==
    /\ pc = "boxed2"
    /\ StartsWithBareLow(s) /\ EndsWithBareHigh(s)
    /\ out.val # s
    /\ out.again = Some(out.val)

\* the last slice of this specification started or ended at a FourByteSeq2 cut
CutAtFourByteSeq2 ==
    /\ range # <<>>
    /\ \/ ClassifyIndex(parent, range[2], overflow_checks) = "FourByteSeq2"
       \/ ClassifyIndex(parent, range[3], overflow_checks) = "FourByteSeq2"

\* the parts of C10 that do not speak of slices
C10_ViewIffNoUnpaired ==
    /\ out.val \in {None, Some(s)}
    /\ (out.val = Some(s) <=> ~HasUnpairedSurrogate(EncodeWideOf(s)))
    /\ ((text # None /\ range = <<>>) => out.val = text)

(* C10, as stated: for every well-formed S, S.to_str() is Some(the bytes of *)
(* S) if and only if S.encode_wide() holds no unpaired surrogate, and None  *)
(* otherwise; from_str(x).to_str() = Some(x) for every valid UTF-8 x; a     *)
(* slice that starts or ends at a FourByteSeq2 cut gives None.              *)
C10_ToStr ==
    pc = "to_str" =>
        /\ C10_ViewIffNoUnpaired
        /\ (CutAtFourByteSeq2 => out.val = None)

(* C10, amended: the same, the last part for a non-empty slice (s[i..i] is  *)
(* the empty string, whose view is Some("")).                               *)
C10_ToStrNonEmptyCut ==
    pc = "to_str" =>
        /\ C10_ViewIffNoUnpaired
        /\ ((CutAtFourByteSeq2 /\ range[2] # range[3]) => out.val = None)

\* the view of a slice that ends in the middle of a 4-byte sequence
C10_Witness ==
    /\ pc = "to_str"
    /\ CutAtFourByteSeq2 /\ range[2] # range[3]
    /\ EndsWithBareHigh(s)
    /\ out.val = None

\* the view of a string made by from_str from a text with a 4-byte character
C10_WitnessText ==
    /\ pc = "to_str" /\ text # None /\ range = <<>>
    /\ Len(s) = 8
    /\ out.val = Some(s)

-----------------------------------------------------------------------------
(* Two strings and their comparison.                                        *)

\* how many items the 16-bit inputs of the compared strings are made of
MaxCmpItems == 2

\* a 1-byte unit, a low and a high surrogate, and two pairs that share the
\* low surrogate: the slices of the inputs hold the same surrogate as a
\* 3-byte ED group and as bare groups with different bytes
CmpItems ==
    {<<\H41>>, <<\HDE03>>, <<\HD966>>, <<\HD966, \HDE03>>, <<\HD94E, \HDE03>>}

CmpStrings == StringsFrom(Concats(CmpItems, MaxCmpItems))

InitCmp ==
    /\ pc = "init"
    /\ s \in CmpStrings
    /\ t \in CmpStrings
    /\ ucs2 = <<>> /\ ucs2b = <<>> /\ text = None /\ parent = <<>>
    /\ overflow_checks = FALSE
    /\ third = <<>>
    /\ IterIdle /\ SliceIdle /\ SearchIdle /\ SplitIdle

\* s == t
PartialEq ==
    /\ pc = "init"
    /\ out' = [panic |-> FALSE, val |-> Eq(s, t)]
    /\ pc' = "compared"
    /\ UNCHANGED <<strVars, range, overflow_checks, iterVars, searchVars, splitVars>>

NextCmp == PartialEq

SpecCmp == InitCmp /\ [][NextCmp]_vars

\* every string of this specification is well-formed
CmpStringsWellFormed == WellFormed(s) /\ WellFormed(t)

(* C2: for all well-formed S and T, S == T (equal canonical triples) holds  *)
(* if and only if S.encode_wide() and T.encode_wide() yield the same code   *)
(* units.                                                                   *)
C2_EqIffSameUnits ==
    pc = "compared" => (out.val <=> EncodeWideOf(s) = EncodeWideOf(t))

\* equal strings of different bytes: bare groups at both ends of the one,
\* 3-byte ED groups in the other
C2_Witness ==
    /\ pc = "compared" /\ out.val
    /\ StartsWithBareLow(s) /\ EndsWithBareHigh(s)
    /\ ~StartsWithBareLow(t) /\ ~EndsWithBareHigh(t)
    /\ Len(s) = 6

-----------------------------------------------------------------------------
(* pattern.rs: the regex of a needle                                       *)

\* A regex of the shape into_searcher writes is a sequence of groups; a
\* group is a set of alternatives; an alternative is a sequence of byte
\* classes (sets of bytes).  \xNN is the group {<<{NN}>>}.
Literal(byte) == {<<{byte}>>}

\* append_regex_pattern_from_surrogate: the groups written for the tag c
AppendRegexPatternFromSurrogate(c) ==
    IF c >= \HB000 THEN
        \* (?:\xed\x{0}|[\x80-\xbf][\x8{2}\x9{2}\xa{2}\xb{2}])\x{1}
        LET a0 == Shr(c, 8)
            a1 == BitAnd(c, \HFF)
            a2 == BitAnd(Shr(c, 8), \HF)
        IN  << { <<{\HED}, {a0}>>,
                 <<\H80 .. \HBF, {\H80 + a2, \H90 + a2, \HA0 + a2, \HB0 + a2}>> },
               Literal(a1) >>
    ELSE
        \* (?:\xed\x{0}\x{1}|\x{2}\x{3}[\x{4}0-\x{4}f])
        LET sv == BitOr(BitAnd(c, \H3F), BitAnd(Shr(c, 2), \H3C0)) + \H40
            a0 == Shr(c, 8)
            a1 == BitAnd(c, \HFF)
            a2 == BitOr(Shr(sv, 8), \HF0)
            a3 == BitOr(BitAnd(Shr(sv, 2), \H3F), \H80)
            a4 == BitOr(BitAnd(sv, 3), 8)
        IN  << { <<{\HED}, {a0}, {a1}>>,
                 <<{a2}, {a3}, (a4 * 16) .. (a4 * 16 + 15)>> } >>

\* the groups of the middle bytes: one \xNN each
RECURSIVE MiddlePattern(_)
MiddlePattern(mid) ==
    IF mid = <<>> THEN <<>>
    ELSE <<Literal(mid[1])>> \o MiddlePattern(Drop(mid, 1))

\* into_searcher: the pattern built from the canonical triple of the needle
IntoSearcherPattern(needle) ==
    LET c == Canonicalize(needle)
    IN  (IF c[1] # 0 THEN AppendRegexPatternFromSurrogate(c[1]) ELSE <<>>)
        \o MiddlePattern(c[2])
        \o (IF c[3] # 0 THEN AppendRegexPatternFromSurrogate(c[3]) ELSE <<>>)

\* the alternative matches the bytes of b from offset pos on
AltMatches(alt, b, pos) ==
    /\ pos + Len(alt) <= Len(b)
    /\ \A k \in 1 .. Len(alt) : b[pos + k] \in alt[k]

\* the offsets at which a match of the groups pat, begun at pos, can end
RECURSIVE MatchEnds(_, _, _)
MatchEnds(pat, b, pos) ==
    IF pat = <<>> THEN {pos}
    ELSE UNION { MatchEnds(Drop(pat, 1), b, pos + Len(alt)) :
                   alt \in {x \in pat[1] : AltMatches(x, b, pos)} }

\* Regex::find on a byte slice: the leftmost match, as Some(<<start, end>>).
\* The alternatives of a group of these patterns have one length, so a
\* match that begins at an offset has one end.
RegexFind(pat, b) ==
    LET starts == {p \in 0 .. Len(b) : MatchEnds(pat, b, p) # {}}
    IN  IF starts = {} THEN None
        ELSE LET p == CHOOSE x \in starts : \A y \in starts : x <= y
             IN  Some(<<p, CHOOSE e \in MatchEnds(pat, b, p) : TRUE>>)

-----------------------------------------------------------------------------
(* pattern.rs: Haystack for &OmgWtf8.  A cursor is a pointer; it is         *)
(* modelled by its distance from the first byte of the haystack.  pre is    *)
(* the memory just before the haystack, for the calls that read there       *)
(* (<<>> where every read is inside the haystack).                          *)

\* *cur
ByteAt(hs, pre, cur) == (pre \o hs)[Len(pre) + cur + 1]

CursorAtFront(hs) == 0
CursorAtBack(hs) == Len(hs)

StartToEndCursor(hs, pre, cur) ==
    IF cur # CursorAtFront(hs) /\ IsCont(ByteAt(hs, pre, cur)) THEN cur + 2 ELSE cur

\* an end cursor taken as the next start cursor unchanged
EndToStartCursorSame(hs, pre, cur) == cur

EndToStartCursor(hs, pre, cur) ==
    IF cur # CursorAtBack(hs) /\ IsCont(ByteAt(hs, pre, cur)) THEN cur - 2 ELSE cur

\* a start cursor on a continuation byte moved back by one
StartCursorToOffsetBack(hs, pre, cur) ==
    IF cur # 0 /\ IsCont(ByteAt(hs, pre, cur)) THEN cur - 1 ELSE cur

StartCursorToOffset(hs, pre, cur) ==
    IF cur # 0 /\ IsCont(ByteAt(hs, pre, cur)) THEN cur + 1 ELSE cur

\* an end cursor taken as the offset unchanged
EndCursorToOffsetPlain(hs, pre, cur) == cur

\* an end cursor on a continuation byte moved forward by one
EndCursorToOffsetForward(hs, pre, cur) ==
    IF cur # Len(hs) /\ IsCont(ByteAt(hs, pre, cur)) THEN cur + 1 ELSE cur

EndCursorToOffset(hs, pre, cur) ==
    IF cur # Len(hs) /\ IsCont(ByteAt(hs, pre, cur)) THEN cur - 1 ELSE cur

\* range_to_self: the bytes from the cursor from up to the cursor to
RangeToSelf(hs, pre, from, to) ==
    SubSeq(pre \o hs, Len(pre) + from + 1, Len(pre) + to)

\* OmgWtf8Searcher::next_match on a searcher whose cursor is at b0, on the
\* haystack hs with the needle's pattern pat: the Option it returns and the
\* fields it leaves.  The slice searched is from_raw_parts(begin, end - begin).
SearcherNextMatch(hs, pre, pat, b0, fin) ==
    IF fin THEN [ret |-> None, begin |-> b0, finished |-> TRUE]
    ELSE LET slice == RangeToSelf(hs, pre, b0, CursorAtBack(hs))
             m     == RegexFind(pat, slice)
         IN  IF m = None THEN [ret |-> None, begin |-> b0, finished |-> TRUE]
             ELSE LET st == b0 + m[1][1]
                      en == b0 + m[1][2]
                  IN  [ret      |-> Some(<<st, en>>),
                       begin    |-> EndToStartCursor(hs, pre, en),
                       finished |-> FALSE]

\* MatchExt::find
Find(hs, needle) ==
    LET r == SearcherNextMatch(hs, <<>>, IntoSearcherPattern(needle),
                               CursorAtFront(hs), FALSE)
    IN  IF r.ret = None THEN None
        ELSE Some(StartCursorToOffset(hs, <<>>, r.ret[1][1]))

-----------------------------------------------------------------------------
(* A haystack s and a needle t: find, a searcher, and split.               *)

\* how many items the 16-bit input of the haystack is made of
MaxHayItems == 3
\* how many calls of next_match, or of Split::next, one behaviour makes
MaxCalls == 5

\* a 1-byte unit, a low and a high surrogate, and their pair (a 4-byte
\* sequence)
SearchItems == {<<\H41>>, <<\HDE31>>, <<\HD83D>>, <<\HD83D, \HDE31>>}

Haystacks == StringsFrom(Concats(SearchItems, MaxHayItems))

\* the 16-bit inputs of the needles: the empty one, single units (one a high
\* surrogate that differs from the haystacks' in its last bit), and runs of
\* surrogates whose slices begin and end inside a 4-byte sequence
NeedleInputs ==
    {<<>>, <<\H41>>, <<\HDE31>>, <<\HD83D>>, <<\HD83C>>,
     <<\HD83D, \HDE31>>, <<\HDE31, \HD83D>>, <<\H41, \HD83D>>, <<\HDE31, \H41>>,
     <<\HD83D, \HDE31, \HD83D, \HDE31>>}

Needles == StringsFrom(NeedleInputs)

\* how far before the haystack a behaviour follows a cursor that has left it
MaxOob == 4
\* what a read of the memory before the haystack may find
OobBytes == {\H41, \H80}
\* the memory before the haystack that a searcher whose cursor is at b0 reads
OobMemory(b0) == IF b0 >= 0 THEN {<<>>} ELSE [1 .. (0 - b0) -> OobBytes]

InitSearch ==
    /\ pc = "init"
    /\ s \in Haystacks
    /\ t \in Needles
    /\ ucs2 = <<>> /\ ucs2b = <<>> /\ text = None /\ parent = <<>>
    /\ overflow_checks = FALSE
    /\ third = <<>>
    /\ IterIdle /\ SliceIdle /\ SearchIdle /\ SplitIdle

\* s.find(t)
FindS ==
    /\ pc = "init"
    /\ found' = Find(s, t)
    /\ pc' = "found"
    /\ UNCHANGED <<strVars, overflow_checks, iterVars, sliceVars, splitVars,
                   begin, finished, matches, last_match, calls>>

\* t.into_searcher(s)
IntoSearcher ==
    /\ pc = "init"
    /\ begin' = CursorAtFront(s)
    /\ finished' = FALSE
    /\ pc' = "searcher"
    /\ UNCHANGED <<strVars, overflow_checks, iterVars, sliceVars, splitVars,
                   matches, last_match, calls, found>>

\* searcher.next_match()
NextMatch ==
    /\ pc = "searcher"
    /\ calls < MaxCalls
    /\ begin >= 0 - MaxOob
    /\ \E pre \in OobMemory(begin) :
         LET r == SearcherNextMatch(s, pre, IntoSearcherPattern(t), begin, finished)
         IN  /\ begin' = r.begin
             /\ finished' = r.finished
             /\ last_match' = r.ret
             /\ matches' = matches \o r.ret
    /\ calls' = calls + 1
    /\ UNCHANGED <<pc, strVars, overflow_checks, iterVars, sliceVars, splitVars, found>>

\* s.split(t)
Split ==
    /\ pc = "init"
    /\ start' = CursorAtFront(s)
    /\ split_finished' = FALSE
    /\ begin' = CursorAtFront(s)
    /\ finished' = FALSE
    /\ pc' = "split"
    /\ UNCHANGED <<strVars, overflow_checks, iterVars, sliceVars, pieces,
                   matches, last_match, calls, found>>

\* Split::next, get_end included
SplitNext ==
    /\ pc = "split"
    /\ calls < MaxCalls
    /\ begin >= 0 - MaxOob
    /\ calls' = calls + 1
    /\ IF split_finished
       THEN UNCHANGED <<begin, finished, last_match, matches, start,
                        split_finished, pieces>>
       ELSE \E pre \in OobMemory(begin) :
              LET r == SearcherNextMatch(s, pre, IntoSearcherPattern(t), begin, finished)
              IN  /\ begin' = r.begin
                  /\ finished' = r.finished
                  /\ last_match' = r.ret
                  /\ matches' = matches \o r.ret
                  /\ IF r.ret # None
                     THEN LET a == StartToEndCursor(s, pre, r.ret[1][1])
                              b == EndToStartCursor(s, pre, r.ret[1][2])
                          IN  /\ pieces' = Append(pieces, RangeToSelf(s, pre, start, a))
                              /\ start' = b
                              /\ UNCHANGED split_finished
                     ELSE \* get_end, allow_trailing_empty = true
                          /\ split_finished' = TRUE
                          /\ pieces' = Append(pieces,
                                  RangeToSelf(s, pre, start, CursorAtBack(s)))
                          /\ UNCHANGED start
    /\ UNCHANGED <<pc, strVars, overflow_checks, iterVars, sliceVars, found>>

\* Haystack::start_cursor_to_offset and Haystack::end_cursor_to_offset of the
\* cursors that the last next_match returned
MatchOffsets ==
    /\ pc = "searcher"
    /\ last_match # None
    /\ \E pre \in OobMemory(last_match[1][1]) :
         out' = Ok(<<StartCursorToOffset(s, pre, last_match[1][1]),
                     EndCursorToOffset(s, pre, last_match[1][2])>>)
    /\ pc' = "offsets"
    /\ UNCHANGED <<strVars, overflow_checks, iterVars, range, splitVars, searchVars>>

NextSearch == FindS \/ IntoSearcher \/ NextMatch \/ Split \/ SplitNext \/ MatchOffsets

SpecSearch == InitSearch /\ [][NextSearch]_vars

\* every haystack and needle of this specification is well-formed
SearchStringsWellFormed == WellFormed(s) /\ WellFormed(t)

\* the indices i at which a legal slice s[i..j] compares equal to the needle
LegalStarts ==
    {i \in 0 .. Len(s) :
        \E j \in 0 .. Len(s) :
            LET r == IndexRange(s, i, j, overflow_checks)
            IN  ~r.panic /\ Eq(r.val, t)}

(* C7: search completeness.  For every well-formed needle N and haystack H, *)
(* H.find(N) is Some(i) if and only if there is a legal slice H[i..j] that  *)
(* is canonically equal to N, and i is the smallest such index; it is None  *)
(* otherwise.                                                               *)
C7_FindSmallest ==
    pc = "found" =>
        found = IF LegalStarts = {} THEN None
                ELSE Some(CHOOSE i \in LegalStarts : \A k \in LegalStarts : i <= k)

\* a needle that begins with a low surrogate, found in the second half of a
\* 4-byte sequence that is not the first group of the haystack
C7_Witness ==
    /\ pc = "found"
    /\ found # None /\ found[1] > 2
    /\ ClassifyIndex(s, found[1], overflow_checks) = "FourByteSeq2"
    /\ Len(t) > 3

\* the needle occurs nowhere in the haystack, which holds its first unit
C7_WitnessNone ==
    /\ pc = "found"
    /\ found = None
    /\ Len(t) > 3 /\ Find(s, Take(t, 3)) # None

CursorAfter(e) ==
    IF ClassifyIndex(s, e, overflow_checks) = "FourByteSeq3" THEN e - 2 ELSE e

Adjacent(m1, m2) ==
    UnitPos(s, StartCursorToOffset(s, <<>>, m2[1]))
        = UnitPos(s, EndCursorToOffset(s, <<>>, m1[2]))

(* C9: split semantics.  For every well-formed haystack H and non-empty     *)
(* needle N, H.split(N) yields exactly (number of matches + 1) pieces,      *)
(* every piece is a well-formed OMG-WTF-8 string, and whenever two          *)
(* successive matches are adjacent the piece yielded between them is the    *)
(* empty string.                                                            *)
C9_SplitSemantics ==
    (pc = "split" /\ t # <<>>) =>
        /\ split_finished => Len(pieces) = Len(matches) + 1
        /\ \A k \in 1 .. Len(pieces) : WellFormed(pieces[k])
        /\ \A k \in 1 .. Len(matches) - 1 :
             Adjacent(matches[k], matches[k + 1]) => pieces[k + 1] = <<>>

-----------------------------------------------------------------------------
(* cmp.rs: Ord and Hash.  Both work on the canonical triple, a tuple        *)
(* (u16, &[u8], u16): tuples are ordered lexicographically, slices too.     *)

CmpInt(a, b) == IF a < b THEN "Less" ELSE IF a > b THEN "Greater" ELSE "Equal"

\* the order of two byte slices: the first difference decides, a proper
\* prefix is less
RECURSIVE CmpBytes(_, _)
CmpBytes(a, b) ==
    IF a = <<>> /\ b = <<>> THEN "Equal"
    ELSE IF a = <<>> THEN "Less"
    ELSE IF b = <<>> THEN "Greater"
    ELSE IF a[1] # b[1] THEN CmpInt(a[1], b[1])
    ELSE CmpBytes(Drop(a, 1), Drop(b, 1))

\* a tuple order that stops after the middle bytes
CmpTripleNoHighTag(x, y) ==
    IF CmpInt(x[1], y[1]) # "Equal" THEN CmpInt(x[1], y[1])
    ELSE CmpBytes(x[2], y[2])

\* the order of two canonical triples
CmpTriple(x, y) ==
    IF CmpInt(x[1], y[1]) # "Equal" THEN CmpInt(x[1], y[1])
    ELSE IF CmpBytes(x[2], y[2]) # "Equal" THEN CmpBytes(x[2], y[2])
    ELSE CmpInt(x[3], y[3])

\* Ord::cmp
Cmp(a, b) == CmpTriple(Canonicalize(a), Canonicalize(b))

\* PartialOrd::partial_cmp
PartialCmp(a, b) == Some(Cmp(a, b))

\* Hash::hash: what the hasher is fed, the triple's fields in order (the
\* slice with its length first)
Hash(a) ==
    LET c == Canonicalize(a)
    IN  <<c[1], Len(c[2])>> \o c[2] \o <<c[3]>>

\* how many items the 16-bit inputs of the three compared strings are made of
MaxOrdItems == 1

\* a 1-byte unit, a high and a low surrogate, and their pair (whose slices
\* hold both as bare groups)
OrdItems == {<<\H41>>, <<\HD966>>, <<\HDE03>>, <<\HD966, \HDE03>>}

OrdStrings == StringsFrom(Concats(OrdItems, MaxOrdItems))

InitOrd ==
    /\ pc = "init"
    /\ s \in OrdStrings
    /\ t \in OrdStrings
    /\ third \in OrdStrings
    /\ ucs2 = <<>> /\ ucs2b = <<>> /\ text = None /\ parent = <<>>
    /\ overflow_checks = FALSE
    /\ IterIdle /\ SliceIdle /\ SearchIdle /\ SplitIdle

\* s.cmp(t), t.cmp(s), t.cmp(third), s.cmp(third)
OrdCmp ==
    /\ pc = "init"
    /\ out' = [panic |-> FALSE,
               val |-> <<Cmp(s, t), Cmp(t, s), Cmp(t, third), Cmp(s, third)>>]
    /\ pc' = "ordered"
    /\ UNCHANGED <<strVars, range, overflow_checks, iterVars, searchVars, splitVars>>

\* s.hash(state) and t.hash(state), each on a fresh hasher
OrdHash ==
    /\ pc = "init"
    /\ out' = [panic |-> FALSE, val |-> <<Hash(s), Hash(t)>>]
    /\ pc' = "hashed"
    /\ UNCHANGED <<strVars, range, overflow_checks, iterVars, searchVars, splitVars>>

NextOrd == OrdCmp \/ OrdHash

SpecOrd == InitOrd /\ [][NextOrd]_vars

Reverse(o) == IF o = "Less" THEN "Greater" ELSE IF o = "Greater" THEN "Less" ELSE o

(* C11: equality, ordering and hashing agree.  For all strings a, b, c, cmp *)
(* is a total order (total: cmp(b, a) is the reverse of cmp(a, b);          *)
(* antisymmetric: a <= b and b <= a only if a == b; transitive), a == b if  *)
(* and only if cmp(a, b) is Equal, and a == b implies that hash feeds the   *)
(* hasher the same triple for a and b.                                      *)
C11_OrdEqHashAgree ==
    /\ pc = "ordered" =>
         /\ out.val[2] = Reverse(out.val[1])
         /\ (out.val[1] # "Greater" /\ out.val[2] # "Greater") => Eq(s, t)
         /\ (out.val[1] # "Greater" /\ out.val[3] # "Greater") => out.val[4] # "Greater"
         /\ (out.val[1] = "Equal" /\ out.val[3] = "Equal") => out.val[4] = "Equal"
         /\ Eq(s, t) <=> out.val[1] = "Equal"
    /\ pc = "hashed" =>
         /\ Eq(s, t) => out.val[1] = out.val[2]
         /\ out.val[1] = out.val[2] => Eq(s, t)

\* a bare and a canonical form of one surrogate compare Equal
C11_Witness ==
    /\ pc = "ordered"
    /\ s # t /\ out.val[1] = "Equal"
    /\ out.val[3] = "Less" /\ out.val[4] = "Less"

-----------------------------------------------------------------------------
(* A 3-byte window s: ThreeByteSeq::new(s), then canonicalize or            *)
(* as_code_unit.                                                            *)

\* the value the subtraction of 0x100 in canonicalize is taken from
HighTagBits(v) == BitOr(BitAnd(Shr(v, 4), \H303), BitAnd(Shr(v, 6), \H1C3C))

\* the subtraction of 0x100 in canonicalize goes below zero
CanonicalizeUnderflows(v) == v >= \HF00000 /\ HighTagBits(v) < \H100

\* ThreeByteSeq(v).canonicalize() in a build with (checks) or without
\* overflow checks: the subtraction panics or wraps
ThreeByteSeqCanonicalizeIn(v, checks) ==
    IF checks /\ CanonicalizeUnderflows(v) THEN Panic
    ELSE Ok(<<ThreeByteSeqCanonicalize(v)>>)

\* bytes at the edges of the ranges the three-byte decoder tells apart
EdgeBytes ==
    {\H00, \H30, \H7F, \H80, \H83, \H8F, \H90, \H9F, \HA0, \HA5, \HA8, \HA9,
     \HAF, \HB0, \HB8, \HBF, \HC0, \HC5, \HDF, \HE0, \HEC, \HED, \HEE, \HEF, \HF0, \HF1,
     \HF4, \HF5, \HFF}

Windows == {<<a, b, c>> : a \in EdgeBytes, b \in EdgeBytes, c \in EdgeBytes}

\* surrogates and 3-byte code units at the edges of their ranges
EdgeHighs == {\HD800, \HD83D, \HD966, \HDBFF}
EdgeLows == {\HDC00, \HDE03, \HDE31, \HDFFF}
EdgeThreeByteUnits == {\H800, \HFFF, \H1000, \HD7FF, \HE000, \HFFFF}

\* the 16-bit inputs of one 4-byte sequence or one 3-byte character
GroupInputs ==
    {<<h, l>> : h \in EdgeHighs, l \in EdgeLows}
        \cup {<<c>> : c \in EdgeHighs \cup EdgeLows \cup EdgeThreeByteUnits}

\* the 3-byte windows of the string b: the first and the last three bytes
WindowsOf(b) == {Take(b, 3), Drop(b, Len(b) - 3)}

\* the window s is any three bytes, or a window of the string parent that
\* from_wide makes of the units ucs2
InitTbs ==
    /\ pc = "init"
    /\ \/ s \in Windows /\ ucs2 = <<>> /\ parent = <<>>
       \/ /\ ucs2 \in GroupInputs
          /\ parent = FromWideOf(ucs2)
          /\ s \in WindowsOf(parent)
    /\ overflow_checks \in BOOLEAN
    /\ t = <<>> /\ ucs2b = <<>> /\ text = None
    /\ third = <<>>
    /\ IterIdle /\ SliceIdle /\ SearchIdle /\ SplitIdle

\* ThreeByteSeq::new(&s).canonicalize()
TbsCanonicalize ==
    /\ pc = "init"
    /\ out' = ThreeByteSeqCanonicalizeIn(ThreeByteSeqNew(s), overflow_checks)
    /\ pc' = "tag"
    /\ UNCHANGED <<strVars, range, overflow_checks, iterVars, searchVars, splitVars>>

\* ThreeByteSeq::new(&s).as_code_unit()
TbsAsCodeUnit ==
    /\ pc = "init"
    /\ out' = Ok(<<ThreeByteSeqAsCodeUnit(ThreeByteSeqNew(s))>>)
    /\ pc' = "unit"
    /\ UNCHANGED <<strVars, range, overflow_checks, iterVars, searchVars, splitVars>>

NextTbs == TbsCanonicalize \/ TbsAsCodeUnit

SpecTbs == InitTbs /\ [][NextTbs]_vars

\* the window is a 3-byte surrogate ED A0..BF xx
IsCanonicalSurrogate(b) == b[1] = \HED /\ b[2] >= \HA0 /\ b[2] <= \HBF /\ IsCont(b[3])
\* the window is the last three bytes of a 4-byte sequence
IsBareLow(b) == IsCont(b[1]) /\ IsCont(b[2]) /\ IsCont(b[3])
\* the window is the first three bytes of a 4-byte sequence of a code point
\* U+10000..U+10FFFF
IsBareHigh(b) ==
    /\ \HF0 <= b[1] /\ b[1] <= \HF4 /\ IsCont(b[2]) /\ IsCont(b[3])
    /\ (b[1] = \HF0 => b[2] >= \H90)
    /\ (b[1] = \HF4 => b[2] <= \H8F)
\* the window represents a surrogate code unit
RepresentsSurrogate(b) == IsCanonicalSurrogate(b) \/ IsBareLow(b) \/ IsBareHigh(b)

\* the code unit of the window
UnitOf(b) == ThreeByteSeqAsCodeUnit(ThreeByteSeqNew(b))

(* C12, as stated: for every 3-byte window v that represents a surrogate    *)
(* code unit u = as_code_unit(v), canonicalize(v) is                        *)
(* 0xA000 | ((u - 0xD800) & 0x0FFF) when u is a high surrogate and          *)
(* 0xB000 | ((u - 0xDC00) & 0x0FFF) when u is a low surrogate.              *)
C12_TagFormula ==
    (pc = "tag" /\ RepresentsSurrogate(s)) =>
        /\ ~out.panic
        /\ IsHighSurrogate(UnitOf(s)) =>
             out.val[1] = BitOr(\HA000, BitAnd(UnitOf(s) - \HD800, \HFFF))
        /\ IsLowSurrogate(UnitOf(s)) =>
             out.val[1] = BitOr(\HB000, BitAnd(UnitOf(s) - \HDC00, \HFFF))

\* the last two bytes of the 3-byte encoding of the surrogate x + base:
\* tag | 0x80 | (x >> 6) << 8 | (x & 0x3f)
TagOf(tag, x) == BitOr(BitOr(tag, \H80), BitOr(Shl(Shr(x, 6), 8), BitAnd(x, \H3F)))

(* C12, amended: for every such window, u is a surrogate and                *)
(* canonicalize(v) is the last two bytes of the 3-byte encoding ED xx xx of *)
(* u: 0xA080 | ((x >> 6) << 8) | (x & 0x3F) with x = u - 0xD800 when u is a *)
(* high surrogate, 0xB080 | ((x >> 6) << 8) | (x & 0x3F) with               *)
(* x = u - 0xDC00 when u is a low surrogate.                                *)
C12_TagIsCanonicalBytes ==
    (pc = "tag" /\ RepresentsSurrogate(s)) =>
        /\ ~out.panic
        /\ IsHighSurrogate(UnitOf(s)) \/ IsLowSurrogate(UnitOf(s))
        /\ IsHighSurrogate(UnitOf(s)) =>
             out.val[1] = TagOf(\HA000, UnitOf(s) - \HD800)
        /\ IsLowSurrogate(UnitOf(s)) =>
             out.val[1] = TagOf(\HB000, UnitOf(s) - \HDC00)
        /\ <<\HED, Shr(out.val[1], 8), BitAnd(out.val[1], \HFF)>>
             = EncodeUnit(UnitOf(s))

\* the first three bytes of the 4-byte sequence of U+69A03: the high
\* surrogate 0xD966, tag 0xA5A6
C12_Witness ==
    /\ pc = "tag" /\ s = <<\HF1, \HA9, \HA8>>
    /\ UnitOf(s) = \HD966
    /\ out.val = <<\HA5A6>>

-----------------------------------------------------------------------------
(* The tags of the canonical triple.                                       *)

\* the string begins with a low surrogate, as a bare group or as a 3-byte ED
\* group
StartsWithLowSurrogate(b) ==
    /\ Len(b) >= 3
    /\ RepresentsSurrogate(Take(b, 3))
    /\ IsLowSurrogate(UnitOf(Take(b, 3)))

\* the string ends with a high surrogate, as a bare group or as a 3-byte ED
\* group
EndsWithHighSurrogate(b) ==
    /\ Len(b) >= 3
    /\ RepresentsSurrogate(Drop(b, Len(b) - 3))
    /\ IsHighSurrogate(UnitOf(Drop(b, Len(b) - 3)))

\* the string begins, or ends, with a 3-byte ED group of a surrogate
StartsCanonical(b) == Len(b) >= 3 /\ IsCanonicalSurrogate(Take(b, 3))
EndsCanonical(b)   == Len(b) >= 3 /\ IsCanonicalSurrogate(Drop(b, Len(b) - 3))

(* C13, as stated: canonicalize(S) has a nonzero low_tag only when S begins *)
(* with a bare low surrogate group and a nonzero high_tag only when S ends  *)
(* with a bare high surrogate group; a string whose ends are in the 3-byte  *)
(* ED form gets both tags 0.                                                *)
C13_TagsOnlyForBareGroups ==
    pc = "compared" =>
        \A x \in {s, t} :
            WellFormed(x) =>
                /\ Canonicalize(x)[1] # 0 => StartsWithBareLow(x)
                /\ Canonicalize(x)[3] # 0 => EndsWithBareHigh(x)
                /\ (StartsCanonical(x) /\ EndsCanonical(x)) =>
                       (Canonicalize(x)[1] = 0 /\ Canonicalize(x)[3] = 0)

(* C13, amended: for every well-formed S, low_tag is nonzero exactly when S *)
(* begins with a low surrogate, bare or as ED B0..BF xx, and is then the    *)
(* last two bytes of the surrogate's 3-byte encoding; high_tag is nonzero   *)
(* exactly when S ends with a high surrogate, bare or as ED A0..AF xx, and  *)
(* is then the last two bytes of its 3-byte encoding; the middle bytes are  *)
(* S without the groups that got a tag.                                     *)
C13_TagsForEitherForm ==
    pc = "compared" =>
        \A x \in {s, t} :
            WellFormed(x) =>
                LET c == Canonicalize(x)
                    low == StartsWithLowSurrogate(x)
                    high == EndsWithHighSurrogate(x)
                IN  /\ c[1] = IF low
                              THEN TagOf(\HB000, UnitOf(Take(x, 3)) - \HDC00)
                              ELSE 0
                    /\ c[3] = IF high
                              THEN TagOf(\HA000,
                                         UnitOf(Drop(x, Len(x) - 3)) - \HD800)
                              ELSE 0
                    /\ c[2] = Window(x, IF low THEN 3 ELSE 0,
                                        IF high THEN Len(x) - 3 ELSE Len(x))

\* a string that begins with the 3-byte ED group of a low surrogate and ends
\* with the 3-byte ED group of a high surrogate: both tags are nonzero
C13_Witness ==
    /\ pc = "compared"
    /\ StartsCanonical(s) /\ EndsCanonical(s)
    /\ Canonicalize(s)[1] = \HB883 /\ Canonicalize(s)[3] = \HA5A6
    /\ StartsWithBareLow(t) /\ EndsWithBareHigh(t)
    /\ out.val

-----------------------------------------------------------------------------
(* The byte offsets of the cursors of a match.                             *)

\* the cursors of the last match lie in the haystack
MatchInHaystack ==
    /\ last_match # None
    /\ 0 <= last_match[1][1] /\ last_match[1][2] <= Len(s)

\* the cursor cur of the haystack sits on a continuation byte
OnContinuation(cur) == cur < Len(s) /\ IsCont(s[cur + 1])

-----------------------------------------------------------------------------
(* The kind of an index.                                                   *)

\* the kind of the index i by the bytes before it alone: k bytes after a byte
\* >= 0xf0, the nearest first
KindByLead(b, i) ==
    IF i > Len(b) THEN "OutOfBounds"
    ELSE IF i = 0 \/ i = Len(b) \/ ~IsCont(b[i + 1]) THEN "CharBoundary"
    ELSE IF \E k \in 1 .. 3 : i >= k /\ b[i - k + 1] >= \HF0
         THEN LET k == CHOOSE k \in 1 .. 3 :
                          /\ i >= k /\ b[i - k + 1] >= \HF0
                          /\ \A j \in 1 .. (k - 1) : b[i - j + 1] < \HF0
              IN  <<"FourByteSeq1", "FourByteSeq2", "FourByteSeq3">>[k]
         ELSE "Interior"

\* the kind of the index i when the 4-byte sequence has to lie in the
\* string: k bytes after a byte >= 0xf0 that has three bytes after it
KindBySequence(b, i) ==
    IF i > Len(b) THEN "OutOfBounds"
    ELSE IF i = 0 \/ i = Len(b) \/ ~IsCont(b[i + 1]) THEN "CharBoundary"
    ELSE IF \E k \in 1 .. 3 : i >= k /\ b[i - k + 1] >= \HF0 /\ i - k + 4 <= Len(b)
         THEN LET k == CHOOSE k \in 1 .. 3 :
                          i >= k /\ b[i - k + 1] >= \HF0 /\ i - k + 4 <= Len(b)
              IN  <<"FourByteSeq1", "FourByteSeq2", "FourByteSeq3">>[k]
         ELSE "Interior"

\* classify_index computes `len - 3` below zero
ClassifyUnderflows(b, i) == Len(b) < 3 /\ 0 < i /\ i < Len(b) /\ IsCont(b[i + 1])

(* C15, as stated, for the strings of 3 bytes and more: classify_index(i)   *)
(* is FourByteSeq1, 2 or 3 exactly when b[i] is a continuation byte and the *)
(* byte 1, 2 or 3 positions before i (nearest first) is >= 0xF0; Interior   *)
(* for any other continuation byte, CharBoundary for a non-continuation     *)
(* byte or i in {0, len}, OutOfBounds for i > len.                          *)
C15_KindByLead ==
    (pc = "classified" /\ Len(s) >= 3) =>
        (~out.panic /\ out.val = <<KindByLead(s, range[2])>>)

(* C15, amended: for every well-formed S, classify_index(i) is              *)
(* FourByteSeq1, 2 or 3 exactly when b[i] is a continuation byte, the byte  *)
(* 1, 2 or 3 positions before i is >= 0xF0 and the four bytes from that     *)
(* byte on all lie in the string; it is Interior for any other continuation *)
(* byte (those of a bare group at the end of the string included),          *)
(* CharBoundary for a non-continuation byte or i in {0, len}, OutOfBounds   *)
(* for i > len.  On a continuation byte of a string shorter than 3 bytes a  *)
(* build with overflow checks panics instead.                               *)
C15_KindBySequence ==
    (pc = "classified" /\ WellFormed(s)) =>
        IF overflow_checks /\ ClassifyUnderflows(s, range[2])
        THEN out.panic
        ELSE ~out.panic /\ out.val = <<KindBySequence(s, range[2])>>

\* the second byte of a bare high surrogate group at the end of a string,
\* after a whole 4-byte sequence: Interior
C15_Witness ==
    /\ pc = "classified"
    /\ EndsWithBareHigh(s) /\ Len(s) >= 7
    /\ range[2] = Len(s) - 2
    /\ s[range[2]] >= \HF0
    /\ out.val = <<"Interior">>
    /\ ClassifyIndex(s, 2, overflow_checks) = "FourByteSeq2"

-----------------------------------------------------------------------------
(* The three-byte canonicalizer, range by range.                           *)

\* the value of the 3 bytes of the string s
WindowValue == ThreeByteSeqNew(s)

\* the bracket of the third range minus 0x100, in 16 bits
HighTagBitsLess100(v) == (HighTagBits(v) + 65536 - \H100) % 65536

-----------------------------------------------------------------------------
(* The two byte forms of a surrogate.                                      *)

\* the last two bytes of a 3-byte group, as a 16-bit value
LastTwo(g) == g[2] * 256 + g[3]

(* C17: for every supplementary code point with UTF-8 bytes b0 b1 b2 b3,    *)
(* canonicalize(b0 b1 b2) is the last two bytes of the 3-byte encoding      *)
(* ED A0..AF xx of its high surrogate and canonicalize(b1 b2 b3) is the     *)
(* last two bytes of the 3-byte encoding ED B0..BF xx of its low surrogate; *)
(* canonicalize of a 3-byte ED A0..BF xx group is its own last two bytes,   *)
(* and canonicalize of any other well-formed 3-byte character is 0.         *)
C17_TwoFormsOneTag ==
    (pc = "tag" /\ ucs2 # <<>>) =>
        /\ ~out.panic
        /\ IF Len(ucs2) = 2
           THEN /\ Len(parent) = 4
                /\ s = Take(parent, 3) =>
                     /\ out.val[1] = LastTwo(EncodeUnit(ucs2[1]))
                     /\ IsHighTag(out.val[1])
                /\ s = Drop(parent, 1) =>
                     /\ out.val[1] = LastTwo(EncodeUnit(ucs2[2]))
                     /\ IsLowTag(out.val[1])
           ELSE /\ s = parent /\ Len(s) = 3
                /\ IF IsHighSurrogate(ucs2[1]) \/ IsLowSurrogate(ucs2[1])
                   THEN /\ IsCanonicalSurrogate(s)
                        /\ out.val[1] = LastTwo(s)
                        /\ IsHighSurrogate(ucs2[1]) <=> IsHighTag(out.val[1])
                        /\ IsLowSurrogate(ucs2[1]) <=> IsLowTag(out.val[1])
                   ELSE out.val[1] = 0

\* the last three bytes of the 4-byte sequence of U+69A03, D966 DE03: the
\* tag of ED B8 83
C17_Witness ==
    /\ pc = "tag"
    /\ ucs2 = <<\HD966, \HDE03>>
    /\ parent = <<\HF1, \HA9, \HA8, \H83>>
    /\ s = <<\HA9, \HA8, \H83>>
    /\ out.val = <<\HB883>>
    /\ EncodeUnit(\HDE03) = <<\HED, \HB8, \H83>>

-----------------------------------------------------------------------------
(* The range of the tag of a group that begins with a byte 0xf0..0xff.     *)

-----------------------------------------------------------------------------
(* The lazy decoder over a string that may begin and end with bare groups. *)

\* the string is any string the constructors and slicing yield
InitIter ==
    /\ pc = "string"
    /\ s \in SliceStrings
    /\ ucs2 = <<>> /\ ucs2b = <<>> /\ t = <<>> /\ text = None /\ parent = <<>>
    /\ overflow_checks = FALSE
    /\ third = <<>>
    /\ IterIdle /\ SliceIdle /\ SearchIdle /\ SplitIdle

NextIter == EncodeWide \/ EncodeWideNext

SpecIter == InitIter /\ [][NextIter]_vars

\* the length of the first group of the bytes b: a 1-, 2- or 3-byte group (a
\* bare group included) or a 4-byte sequence
GroupLen(b) ==
    IF b[1] <= \H7F THEN 1
    ELSE IF \HC0 <= b[1] /\ b[1] <= \HDF THEN 2
    ELSE IF b[1] >= \HF0 /\ Len(b) >= 4 THEN 4
    ELSE 3

\* the lengths of the groups of b
RECURSIVE GroupLens(_)
GroupLens(b) ==
    IF b = <<>> THEN <<>>
    ELSE <<GroupLen(b)>> \o GroupLens(Drop(b, GroupLen(b)))

\* how many of the groups have the length n
CountGroups(b, n) == Cardinality({k \in 1 .. Len(GroupLens(b)) : GroupLens(b)[k] = n})

\* a call of next that decodes a 4-byte sequence returns the high surrogate
\* of its code point, consumes its 4 bytes and fills the slot with the low
\* surrogate
DecodesFourBytes ==
    (pc = "iter" /\ low_surrogate = None /\ src # <<>>
        /\ src[1] >= \HF0 /\ Len(src) >= 4) =>
        /\ src' = Drop(src, 4)
        /\ Len(collected') = Len(collected) + 1
        /\ low_surrogate' # None
        /\ IsHighSurrogate(collected'[Len(collected')])
        /\ IsLowSurrogate(low_surrogate'[1])
        /\ EncodePair(collected'[Len(collected')], low_surrogate'[1]) = Take(src, 4)

\* the call after that returns the low surrogate, consumes no byte and
\* empties the slot
ReturnsPendingLow ==
    (pc = "iter" /\ low_surrogate # None) =>
        /\ src' = src
        /\ collected' = collected \o low_surrogate
        /\ low_surrogate' = None
        /\ pc' = "iter"

\* the slot is only full right after a high surrogate was returned
SlotAfterHigh ==
    (pc = "iter" /\ low_surrogate # None) =>
        (collected # <<>> /\ IsHighSurrogate(collected[Len(collected)]))

\* the number of items of a finished iteration
ItemCount ==
    pc = "collected" =>
        Len(collected) = CountGroups(s, 1) + CountGroups(s, 2) + CountGroups(s, 3)
                            + 2 * CountGroups(s, 4)

(* C19: whenever EncodeWide::next decodes a 4-byte sequence (lead           *)
(* 0xF0..=0xFF with at least 4 bytes remaining) it returns the high         *)
(* surrogate and consumes 4 bytes, and the very next call returns the       *)
(* matching low surrogate without consuming any byte; the one-slot buffer   *)
(* is empty after that call, and the number of items yielded is the number  *)
(* of 1-, 2- and 3-byte groups plus twice the number of 4-byte sequences.   *)
C19_PendingLowSurrogate ==
    /\ [][DecodesFourBytes /\ ReturnsPendingLow]_vars
    /\ [](SlotAfterHigh /\ ItemCount)

\* a finished iteration over a 4-byte sequence followed by a bare high
\* surrogate group, which has a lead 0xf0 but fewer than 4 bytes
C19_Witness ==
    /\ pc = "collected"
    /\ s = <<\HF0, \H9F, \H98, \H80, \HF0, \H9F, \H98>>
    /\ collected = <<\HD83D, \HDE00, \HD83D>>
    /\ low_surrogate = None /\ src = <<>>

-----------------------------------------------------------------------------
(* The pairing of surrogates in from_wide.                                 *)

\* the positions of w that hold a high surrogate immediately followed by a
\* low surrogate
PairedAt(w) ==
    {k \in 1 .. Len(w) - 1 : IsHighSurrogate(w[k]) /\ IsLowSurrogate(w[k + 1])}

\* the UTF-8 bytes of the code point cp >= 0x10000
Utf8FourBytes(cp) ==
    <<\HF0 + (cp \div 262144),
      \H80 + ((cp \div 4096) % 64),
      \H80 + ((cp \div 64) % 64),
      \H80 + (cp % 64)>>

\* the generalized UTF-8 bytes of the 16-bit unit c, surrogates included
Wtf8Bytes(c) ==
    IF c < 128 THEN <<c>>
    ELSE IF c < 2048 THEN <<\HC0 + (c \div 64), \H80 + (c % 64)>>
    ELSE <<\HE0 + (c \div 4096), \H80 + ((c \div 64) % 64), \H80 + (c % 64)>>

\* what the unit at position k of w contributes to the string: the 4-byte
\* sequence of its pair, nothing (the low half of a pair), or its own bytes
PieceAt(w, k) ==
    IF k \in PairedAt(w)
    THEN Utf8FourBytes(65536 + (w[k] - \HD800) * 1024 + (w[k + 1] - \HDC00))
    ELSE IF k - 1 \in PairedAt(w) THEN <<>>
    ELSE Wtf8Bytes(w[k])

RECURSIVE PiecesFrom(_, _)
PiecesFrom(w, k) == IF k > Len(w) THEN <<>> ELSE PieceAt(w, k) \o PiecesFrom(w, k + 1)

\* a 3-byte group of a high surrogate immediately followed by one of a low
\* surrogate
HasSplitPair(b) ==
    \E k \in 1 .. Len(b) - 5 :
        /\ b[k] = \HED /\ \HA0 <= b[k + 1] /\ b[k + 1] <= \HAF
        /\ b[k + 3] = \HED /\ b[k + 4] >= \HB0

(* C20: for every W, every high surrogate that is immediately followed by a *)
(* low surrogate in W is emitted as one 4-byte sequence (also after a run   *)
(* of unpaired high surrogates), every other surrogate is emitted as a      *)
(* 3-byte ED A0..BF xx group, and the output never contains a bare low or   *)
(* bare high group nor an ED A0..AF xx group immediately followed by an     *)
(* ED B0..BF xx group.                                                      *)
C20_SurrogatePairing ==
    (pc = "string" /\ text = None /\ range = <<>>) =>
        /\ s = PiecesFrom(ucs2, 1)
        /\ \A k \in 1 .. Len(ucs2) :
             (IsHighSurrogate(ucs2[k]) \/ IsLowSurrogate(ucs2[k])) =>
                 IF k \in PairedAt(ucs2) THEN Len(PieceAt(ucs2, k)) = 4
                 ELSE IF k - 1 \in PairedAt(ucs2) THEN PieceAt(ucs2, k) = <<>>
                 ELSE IsCanonicalSurrogate(PieceAt(ucs2, k))
        /\ ~StartsWithBareLow(s) /\ ~EndsWithBareHigh(s)
        /\ WellFormedChars(s, FALSE)
        /\ ~HasSplitPair(s)

\* two high surrogates and a low one: a 3-byte group, then the 4-byte
\* sequence of U+10FC00
C20_Witness ==
    /\ pc = "string"
    /\ ucs2 = <<\HD800, \HDBFF, \HDC00>>
    /\ s = <<\HED, \HA0, \H80, \HF4, \H8F, \HB0, \H80>>

-----------------------------------------------------------------------------
(* A searcher that is called again and again.                              *)

\* the caller enters searcher.next_match()
CallNextMatch ==
    /\ pc = "searcher"
    /\ begin >= 0 - MaxOob
    /\ pc' = "next_match"
    /\ UNCHANGED <<strVars, overflow_checks, iterVars, sliceVars, splitVars, searchVars>>

\* searcher.next_match() returns
ReturnNextMatch ==
    /\ pc = "next_match"
    /\ \E pre \in OobMemory(begin) :
         LET r == SearcherNextMatch(s, pre, IntoSearcherPattern(t), begin, finished)
         IN  /\ begin' = r.begin
             /\ finished' = r.finished
             /\ last_match' = r.ret
    /\ pc' = "searcher"
    /\ UNCHANGED <<strVars, overflow_checks, iterVars, sliceVars, splitVars,
                   matches, calls, found>>

NextExhaust == IntoSearcher \/ CallNextMatch \/ ReturnNextMatch

\* The caller goes on calling: the searcher is made, every call that can be
\* made is made, and every call returns.  next_match can always return once
\* it is entered, so weak fairness of ReturnNextMatch is that no behaviour
\* stays inside the call for ever.
SpecExhaust ==
    /\ InitSearch /\ [][NextExhaust]_vars
    /\ WF_vars(IntoSearcher) /\ WF_vars(CallNextMatch)
    /\ []<>(pc # "next_match")

(* C21: searcher exhaustion.  For every needle N (the empty string          *)
(* included) and every well-formed haystack H, repeated calls of            *)
(* next_match eventually return None, and after the first None every later  *)
(* call returns None.                                                       *)
C21_Exhaustion ==
    /\ <>finished
    /\ [][finished => finished']_vars
    /\ []((finished /\ pc = "searcher") => last_match = None)

-----------------------------------------------------------------------------
(* The subtractions of classify_index.                                     *)

(* C22: for every well-formed string S of any length (1 and 2 included) and *)
(* every index i, the bounds len - 3, len - 2 and len - 1 computed in       *)
(* classify_index never go below zero, and an index on the continuation     *)
(* byte of a 2-byte character in a 2-byte string is classified Interior.    *)
C22_NoUnderflow ==
    (pc = "classified" /\ WellFormed(s)) =>
        /\ ~ClassifyUnderflows(s, range[2])
        /\ ~out.panic
        /\ (Len(s) = 2 /\ GroupLen(s) = 2 /\ range[2] = 1) => out.val = <<"Interior">>

-----------------------------------------------------------------------------
(* The offsets of a match as the endpoints of a slice.                     *)

\* the kinds an endpoint of a slice may have
IsSliceEndpoint(i) ==
    ClassifyIndex(s, i, overflow_checks) \in {"CharBoundary", "FourByteSeq2"}

(* C23: for every well-formed haystack H, non-empty well-formed needle N    *)
(* and every match (s, e) returned by next_match, the offsets               *)
(* i = start_cursor_to_offset(s) and j = end_cursor_to_offset(e) each       *)
(* classify as CharBoundary or FourByteSeq2, H[i..j] does not fail, its     *)
(* byte window is exactly the matched bytes [s, e), and it compares equal   *)
(* to N.                                                                    *)
C23_MatchOffsetsValid ==
    (pc = "offsets" /\ t # <<>>) =>
        LET st == last_match[1][1]
            en == last_match[1][2]
            r == IndexRange(s, out.val[1], out.val[2], overflow_checks)
        IN  /\ 0 <= st /\ st < en /\ en <= Len(s)
            /\ IsSliceEndpoint(out.val[1]) /\ IsSliceEndpoint(out.val[2])
            /\ out.val[1] < out.val[2]
            /\ ~r.panic
            /\ r.val = RangeToSelf(s, <<>>, st, en)
            /\ Eq(r.val, t)

\* the second match of a needle that is a low surrogate, in the second half
\* of a 4-byte sequence: the slice begins inside the sequence and is its
\* last three bytes
C23_Witness ==
    /\ pc = "offsets" /\ t # <<>>
    /\ Len(matches) >= 2
    /\ ClassifyIndex(s, out.val[1], overflow_checks) = "FourByteSeq2"
    /\ ClassifyIndex(s, out.val[2], overflow_checks) = "CharBoundary"
    /\ out.val[1] = last_match[1][1] + 1 /\ out.val[2] = last_match[1][2]
    /\ IndexRange(s, out.val[1], out.val[2], overflow_checks).val
          = <<\H9F, \H98, \HB1>>

=============================================================================
